---- MODULE Spec2Model ----
(***************************************************************************)
(* Model of the contact-record ingestion component CSVParser and of the    *)
(* persisted store useCSVStore.                                            *)
(*                                                                         *)
(* A JavaScript string is modelled as a sequence of one-character strings, *)
(* so that trim, split, the regular expressions and toLowerCase are        *)
(* computed character by character as the code computes them.              *)
(***************************************************************************)
EXTENDS Integers, Sequences, FiniteSets, TLC

(***************************************************************************)
(* Characters and string primitives.                                       *)
(***************************************************************************)
TAB == "\t"
NL == "\n"
COMMA == ","
QUOTE == "\""

Digits == {"0", "1", "2", "3", "4", "5", "6", "7", "8", "9"}
UpperSeq == <<"A", "B", "C", "D", "E", "F", "G", "H", "I", "J", "K", "L", "M",
              "N", "O", "P", "Q", "R", "S", "T", "U", "V", "W", "X", "Y", "Z">>
LowerSeq == <<"a", "b", "c", "d", "e", "f", "g", "h", "i", "j", "k", "l", "m",
              "n", "o", "p", "q", "r", "s", "t", "u", "v", "w", "x", "y", "z">>
Letters == {UpperSeq[i] : i \in DOMAIN UpperSeq} \cup {LowerSeq[i] : i \in DOMAIN LowerSeq}

\* \s of a regular expression and the characters String.prototype.trim strips.
IsWhitespace(c) == c \in {" ", "\t", "\n", "\r", "\f"}
\* \w of a regular expression.
WordChars == Letters \cup Digits \cup {"_"}
IsWordChar(c) == c \in WordChars

LowerOf == [c \in {UpperSeq[i] : i \in DOMAIN UpperSeq} |->
              LowerSeq[CHOOSE i \in DOMAIN UpperSeq : UpperSeq[i] = c]]

toLowerChar(c) == IF c \in DOMAIN LowerOf THEN LowerOf[c] ELSE c

\* String.prototype.toLowerCase
toLowerCase(s) == [i \in 1..Len(s) |-> toLowerChar(s[i])]

\* String.prototype.includes for a one-character needle
includes(s, c) == \E i \in 1..Len(s) : s[i] = c

\* String.prototype.trim
trim(s) ==
    LET keep == {i \in 1..Len(s) : ~IsWhitespace(s[i])}
    IN  IF keep = {} THEN <<>>
        ELSE LET lo == CHOOSE i \in keep : \A j \in keep : i <= j
                 hi == CHOOSE i \in keep : \A j \in keep : j <= i
             IN  SubSeq(s, lo, hi)

\* String.prototype.split for a one-character separator: always at least one
\* piece, the empty string gives one empty piece.
split(s, sep) ==
    LET cuts == {i \in 1..Len(s) : s[i] = sep}
        n == Cardinality(cuts)
        \* position of the k-th separator; 0 before the first, Len+1 after the last
        cut(k) == IF k = 0 THEN 0
                  ELSE IF k = n + 1 THEN Len(s) + 1
                  ELSE CHOOSE i \in cuts : Cardinality({j \in cuts : j < i}) = k - 1
    IN  [k \in 1..(n + 1) |-> SubSeq(s, cut(k - 1) + 1, cut(k) - 1)]

\* Array.prototype.join("\n"), used to build the pasted texts
RECURSIVE joinLines(_)
joinLines(ls) ==
    IF Len(ls) = 0 THEN <<>>
    ELSE IF Len(ls) = 1 THEN ls[1]
    ELSE ls[1] \o <<NL>> \o joinLines(Tail(ls))

(***************************************************************************)
(* detectDelimiter and splitRow.                                           *)
(***************************************************************************)
\* A detection that looks at the whole content.
detectDelimiterAnyLine(content) ==
    IF includes(content, TAB) THEN TAB
    ELSE IF includes(content, COMMA) THEN COMMA
    ELSE TAB

detectDelimiter(content) ==
    LET firstLine == split(content, NL)[1]
    IN  IF includes(firstLine, TAB) THEN TAB
        ELSE IF includes(firstLine, COMMA) THEN COMMA
        ELSE TAB

\* The lookahead (?=\s*,|\s*$) at position p (the index of the next character).
LookaheadOK(row, p) ==
    \E k \in p..(Len(row) + 1) :
        /\ \A j \in p..(k - 1) : IsWhitespace(row[j])
        /\ (k = Len(row) + 1 \/ row[k] = COMMA)

\* One attempt of (".*?"|[^,]+)(?=\s*,|\s*$) anchored at index i: the index of
\* the last character of the match, 0 when the pattern does not match at i.
\* The first alternative is tried first and is lazy (shortest quoted span), the
\* second is greedy and backtracks (longest run of non-commas).
MatchEndAt(row, i) ==
    LET quoted == {j \in (i + 1)..Len(row) :
                      /\ row[i] = QUOTE
                      /\ row[j] = QUOTE
                      /\ \A k \in (i + 1)..(j - 1) : row[k] \notin {"\n", "\r"}
                      /\ LookaheadOK(row, j + 1)}
        plain  == {j \in i..Len(row) :
                      /\ \A k \in i..j : row[k] # COMMA
                      /\ LookaheadOK(row, j + 1)}
    IN  IF quoted # {} THEN CHOOSE j \in quoted : \A k \in quoted : j <= k
        ELSE IF plain # {} THEN CHOOSE j \in plain : \A k \in plain : k <= j
        ELSE 0

\* String.prototype.match with the g flag: the successive matches, each search
\* starting where the previous match ended.
RECURSIVE matchAll(_, _)
matchAll(row, from) ==
    IF from > Len(row) THEN <<>>
    ELSE LET e == MatchEndAt(row, from)
         IN  IF e = 0 THEN matchAll(row, from + 1)
             ELSE <<SubSeq(row, from, e)>> \o matchAll(row, e + 1)

stripQuotes(field) ==
    IF Len(field) >= 1 /\ field[1] = QUOTE /\ field[Len(field)] = QUOTE
    THEN SubSeq(field, 2, Len(field) - 1)
    ELSE field

splitRow(row, delimiter) ==
    LET matches == matchAll(row, 1)
    IN  IF delimiter = COMMA /\ Len(matches) > 0
        THEN [k \in 1..Len(matches) |-> stripQuotes(matches[k])]
        ELSE split(row, delimiter)

(***************************************************************************)
(* Header detection: headerPatterns and RegExp.prototype.test.             *)
(* A pattern alternative is a sequence of characters in which the token    *)
(* "WS*" stands for \s*.                                                   *)
(***************************************************************************)
WS == "WS*"

namePattern ==
    { <<"n", "a", "m", "e">>,
      <<"f", "u", "l", "l", WS, "n", "a", "m", "e">>,
      <<"c", "u", "s", "t", "o", "m", "e", "r">>,
      <<"c", "l", "i", "e", "n", "t">>,
      <<"c", "o", "n", "t", "a", "c", "t">>,
      <<"p", "e", "r", "s", "o", "n">> }

emailPattern ==
    { <<"e", "m", "a", "i", "l">>,
      <<"e", "-", "m", "a", "i", "l">>,
      <<"m", "a", "i", "l">>,
      <<"a", "d", "d", "r", "e", "s", "s">>,
      <<"c", "o", "n", "t", "a", "c", "t">>,
      <<"e", "l", "e", "c", "t", "r", "o", "n", "i", "c", WS, "m", "a", "i", "l">> }

phonePattern ==
    { <<"p", "h", "o", "n", "e">>,
      <<"t", "e", "l">>,
      <<"t", "e", "l", "e", "p", "h", "o", "n", "e">>,
      <<"m", "o", "b", "i", "l", "e">>,
      <<"c", "e", "l", "l">>,
      <<"c", "o", "n", "t", "a", "c", "t">>,
      <<"n", "u", "m", "b", "e", "r">> }

headerPatterns == <<namePattern, emailPattern, phonePattern>>

\* The indices right after a match of the alternative pat that starts at index
\* i of s; the i flag of the patterns makes the comparison ignore case.
RECURSIVE MatchEnds(_, _, _)
MatchEnds(pat, s, i) ==
    IF Len(pat) = 0 THEN {i}
    ELSE IF Head(pat) = WS
    THEN UNION { MatchEnds(Tail(pat), s, k) :
                   k \in {k \in i..(Len(s) + 1) : \A j \in i..(k - 1) : IsWhitespace(s[j])} }
    ELSE IF i <= Len(s) /\ toLowerChar(s[i]) = Head(pat)
    THEN MatchEnds(Tail(pat), s, i + 1)
    ELSE {}

\* \b at index p: exactly one of the characters before and at p is a word character.
WordBoundary(s, p) ==
    LET wordAt(k) == k \in 1..Len(s) /\ IsWordChar(s[k])
    IN  wordAt(p - 1) # wordAt(p)

\* /(^|\b)(alt1|alt2|...)($|\b)/i.test(s)
patternTest(alts, s) ==
    \E alt \in alts : \E i \in 1..(Len(s) + 1) :
        \E p \in MatchEnds(alt, s, i) :
            /\ (i = 1 \/ WordBoundary(s, i))
            /\ (p = Len(s) + 1 \/ WordBoundary(s, p))

\* A detection that wants every pattern to match.
isHeaderRowEvery(firstRow) ==
    \A k \in DOMAIN headerPatterns : patternTest(headerPatterns[k], firstRow)

\* Object.values(headerPatterns).some(pattern => pattern.test(firstRow))
isHeaderRow(firstRow) ==
    \E k \in DOMAIN headerPatterns : patternTest(headerPatterns[k], firstRow)

(***************************************************************************)
(* Field classification and RowSchema.                                     *)
(***************************************************************************)
\* /^\+?[0-9]{10,14}$/
phoneRegex(s) ==
    LET body == IF Len(s) >= 1 /\ s[1] = "+" THEN Tail(s) ELSE s
    IN  /\ Len(body) >= 10
        /\ Len(body) <= 14
        /\ \A i \in 1..Len(body) : body[i] \in Digits

\* A classification by position: name, phone, email in the order of the fields.
RECURSIVE categorizeByPosition(_, _)
categorizeByPosition(fields, originalValues) ==
    IF Len(fields) = 0 THEN originalValues
    ELSE LET trimmedField == trim(Head(fields))
             next == IF Len(fields) = 3
                     THEN [originalValues EXCEPT !.name = trimmedField]
                     ELSE IF Len(fields) = 2
                     THEN [originalValues EXCEPT !.phone = trimmedField]
                     ELSE [originalValues EXCEPT !.email = trimmedField]
         IN  categorizeByPosition(Tail(fields), next)

\* A classification in which the first field of a role wins.
RECURSIVE categorizeFirstWins(_, _)
categorizeFirstWins(fields, originalValues) ==
    IF Len(fields) = 0 THEN originalValues
    ELSE LET trimmedField == trim(Head(fields))
             role == IF includes(trimmedField, "@") THEN "email"
                     ELSE IF phoneRegex(trimmedField) THEN "phone"
                     ELSE "name"
             next == IF Len(originalValues[role]) = 0
                     THEN [originalValues EXCEPT ![role] = trimmedField]
                     ELSE originalValues
         IN  categorizeFirstWins(Tail(fields), next)

\* The first pass over the three fields: each trimmed field goes to email if it
\* contains "@", else to phone if it has the phone shape, else to name; a later
\* field of the same role overwrites the earlier one.
RECURSIVE categorize(_, _)
categorize(fields, originalValues) ==
    IF Len(fields) = 0 THEN originalValues
    ELSE LET trimmedField == trim(Head(fields))
             next == IF includes(trimmedField, "@")
                     THEN [originalValues EXCEPT !.email = trimmedField]
                     ELSE IF phoneRegex(trimmedField)
                     THEN [originalValues EXCEPT !.phone = trimmedField]
                     ELSE [originalValues EXCEPT !.name = trimmedField]
         IN  categorize(Tail(fields), next)

\* z.string().email(): the e-mail pattern of the zod library,
\* /^(?!\.)(?!.*\.\.)([A-Z0-9_'+\-\.]*)[A-Z0-9_+-]@([A-Z0-9][A-Z0-9\-]*\.)+[A-Z]{2,}$/i
Alnum == Letters \cup Digits
EmailLocalChars == Alnum \cup {"_", "'", "+", "-", "."}
EmailLocalLast == Alnum \cup {"_", "+", "-"}
EmailLabelChars == Alnum \cup {"-"}

emailRegex(s) ==
    \E a \in 1..Len(s) :
          /\ s[a] = "@"
          /\ a >= 2
          /\ s[1] # "."
          /\ \A i \in 1..(Len(s) - 1) : ~(s[i] = "." /\ s[i + 1] = ".")
          /\ \A i \in 1..(a - 1) : s[i] \in EmailLocalChars
          /\ s[a - 1] \in EmailLocalLast
          /\ LET labels == split(SubSeq(s, a + 1, Len(s)), ".")
                 n == Len(labels)
             IN  /\ n >= 2
                 /\ Len(labels[n]) >= 2
                 /\ \A i \in 1..Len(labels[n]) : labels[n][i] \in Letters
                 /\ \A k \in 1..(n - 1) :
                        /\ Len(labels[k]) >= 1
                        /\ labels[k][1] \in Alnum
                        /\ \A i \in 1..Len(labels[k]) : labels[k][i] \in EmailLabelChars

\* A validation that stops at the first field that fails.
RowSchemaFirstIssue(rowData) ==
    IF Len(rowData.name) < 1 THEN <<"name">>
    ELSE IF ~phoneRegex(rowData.phone) THEN <<"phone">>
    ELSE IF ~emailRegex(rowData.email) THEN <<"email">>
    ELSE <<>>

\* RowSchema.parse: the paths of the issues, in the order of the schema's keys;
\* the empty sequence when the row is valid.
RowSchemaIssues(rowData) ==
    (IF Len(rowData.name) >= 1 THEN <<>> ELSE <<"name">>)
    \o (IF phoneRegex(rowData.phone) THEN <<>> ELSE <<"phone">>)
    \o (IF emailRegex(rowData.email) THEN <<>> ELSE <<"email">>)

(***************************************************************************)
(* handleParse.                                                            *)
(* An error string `<text> at Row <n>` is the record [text, row]; a        *)
(* Map<string, number> is a function on the keys it holds; uuidv4() is a   *)
(* counter, so that every call yields an identifier never produced before. *)
(***************************************************************************)
ErrorString(text, rowNumber) == [text |-> text, row |-> rowNumber]

\* map.get(key) || 0
getOrZero(map, key) == IF key \in DOMAIN map THEN map[key] ELSE 0

\* map.set(key, value)
mapSet(map, key, value) ==
    [k \in DOMAIN map \cup {key} |-> IF k = key THEN value ELSE map[k]]

\* duplicateDetails.join(" and ")
joinDetails(duplicateDetails) ==
    IF duplicateDetails = <<"email", "phone">> THEN "Duplicate email and phone"
    ELSE IF duplicateDetails = <<"email">> THEN "Duplicate email"
    ELSE "Duplicate phone"

\* const rowNumber = isHeader ? index + 2 : index + 1
rowNumberOf(isHeader, index) == IF isHeader THEN index + 2 ELSE index + 1

\* The field count check, negated: fields.length !== 3 rejects the row.
hasThreeFieldsLoose(fields) == Len(fields) >= 2
hasThreeFields(fields) == Len(fields) = 3

\* emailCounts.get(emailLower)! > 1, phoneCounts.get(phone)! > 1: the second
\* and later occurrences of a key are reported.
isRepeatedFromThird(count) == count > 2
isRepeatedFromFirst(count) == count >= 1
isRepeated(count) == count > 1

\* The guard of parsed.push: both counters are 1 after the update.
isFirstOccurrenceBeforeUpdate(emailCount, phoneCount) == emailCount = 0 /\ phoneCount = 0
isFirstOccurrence(emailCount, phoneCount) == emailCount = 1 /\ phoneCount = 1

\* The callback of dataRows.forEach is written as a chain of operators, one
\* per stage, each receiving the values the code holds in local variables; st
\* holds the variables the callback closes over (errors, parsed, the counters,
\* the seen sets and the state of the identifier source).

\* err.errors.forEach: one error string per issue, in the order of the issues
zodErrors(issues, rowNumber) ==
    [k \in 1..Len(issues) |->
        ErrorString(IF issues[k] = "name" THEN "Invalid name"
                    ELSE IF issues[k] = "phone" THEN "Invalid phone"
                    ELSE "Invalid email", rowNumber)]

\* duplicateDetails after the two tests on the updated counters
duplicateDetailsOf(emailCount, phoneCount) ==
    (IF isRepeated(emailCount) THEN <<"email">> ELSE <<>>)
    \o (IF isRepeated(phoneCount) THEN <<"phone">> ELSE <<>>)

\* After the counters were updated: report the duplicate, or push the row.
reportOrPush(counted, validatedRow, emailLower, phone, duplicateDetails, rowNumber) ==
    IF Len(duplicateDetails) > 0
    THEN [counted EXCEPT !.errors = Append(@, ErrorString(joinDetails(duplicateDetails), rowNumber))]
    ELSE IF isFirstOccurrence(counted.emailCounts[emailLower], counted.phoneCounts[phone])
    THEN [counted EXCEPT !.seenEmails = @ \cup {emailLower},
                         !.seenPhones = @ \cup {phone},
                         !.parsed = Append(@, validatedRow)]
    ELSE counted

\* The duplicate tracking of a validated row, st already holding its counts.
checkCounts(counted, validatedRow, emailLower, phone, rowNumber) ==
    reportOrPush(counted, validatedRow, emailLower, phone,
                 duplicateDetailsOf(counted.emailCounts[emailLower], counted.phoneCounts[phone]),
                 rowNumber)

\* emailCounts.set(...), phoneCounts.set(...), then the tests
updateCounts(st, validatedRow, emailLower, phone, rowNumber) ==
    checkCounts([st EXCEPT !.emailCounts = mapSet(@, emailLower, getOrZero(@, emailLower) + 1),
                           !.phoneCounts = mapSet(@, phone, getOrZero(@, phone) + 1)],
                validatedRow, emailLower, phone, rowNumber)

\* try { RowSchema.parse(rowData) ... } catch (err) { ... }
tryParse(st, rowData, issues, rowNumber) ==
    IF Len(issues) > 0
    THEN [st EXCEPT !.errors = @ \o zodErrors(issues, rowNumber)]
    ELSE updateCounts(st, rowData, toLowerCase(rowData.email), rowData.phone, rowNumber)

\* const rowData = { id: uuidv4(), ...originalValues }
rowDataOf(id, originalValues) ==
    [id |-> id, name |-> originalValues.name,
     email |-> originalValues.email, phone |-> originalValues.phone]

validateRow(st, rowData, rowNumber) ==
    tryParse([st EXCEPT !.uuid = @ + 1], rowData, RowSchemaIssues(rowData), rowNumber)

\* the field count check, then classification and validation
processFields(st, fields, rowNumber) ==
    IF ~hasThreeFields(fields)
    THEN [st EXCEPT !.errors = Append(@, ErrorString("Invalid number of fields", rowNumber))]
    ELSE validateRow(st,
                     rowDataOf(st.uuid,
                               categorize(fields, [name |-> <<>>, email |-> <<>>, phone |-> <<>>])),
                     rowNumber)

\* dataRows.forEach((row, index) => ...): the callback
forEachRow(st, row, index, isHeader, delimiter) ==
    processFields(st, splitRow(row, delimiter), rowNumberOf(isHeader, index))

\* A loop that gives up at the first row that reports an error.
RECURSIVE forEachStepsUntilError(_, _, _, _, _)
forEachStepsUntilError(st, dataRows, index, isHeader, delimiter) ==
    IF index >= Len(dataRows) THEN <<>>
    ELSE LET next == forEachRow(st, dataRows[index + 1], index, isHeader, delimiter)
         IN  IF Len(next.errors) > Len(st.errors) THEN <<next>>
             ELSE <<next>> \o forEachStepsUntilError(next, dataRows, index + 1, isHeader, delimiter)

\* dataRows.forEach: the closed-over variables after each row, steps[k] being
\* their state after row k.
RECURSIVE forEachSteps(_, _, _, _, _)
forEachSteps(st, dataRows, index, isHeader, delimiter) ==
    IF index >= Len(dataRows) THEN <<>>
    ELSE LET next == forEachRow(st, dataRows[index + 1], index, isHeader, delimiter)
         IN  <<next>> \o forEachSteps(next, dataRows, index + 1, isHeader, delimiter)

\* The variables the loop closes over, before the first row: the seen sets are
\* seeded from the collection, the counters and the two lists start empty.
loopStart(current, uuid) ==
    [errors |-> <<>>, parsed |-> <<>>,
     emailCounts |-> <<>>, phoneCounts |-> <<>>,
     seenEmails |-> {toLowerCase(current[i].email) : i \in DOMAIN current},
     seenPhones |-> {current[i].phone : i \in DOMAIN current},
     uuid |-> uuid]

\* the local variables of handleParse when the loop has finished
scanResult(text, rows, delimiter, isHeader, dataRows, start, steps) ==
    [text |-> text, rows |-> rows, delimiter |-> delimiter, isHeader |-> isHeader,
     dataRows |-> dataRows, start |-> start, steps |-> steps,
     errors |-> IF Len(steps) = 0 THEN start.errors ELSE steps[Len(steps)].errors,
     parsed |-> IF Len(steps) = 0 THEN start.parsed ELSE steps[Len(steps)].parsed,
     uuid |-> IF Len(steps) = 0 THEN start.uuid ELSE steps[Len(steps)].uuid]

scanDataRows(text, rows, delimiter, isHeader, dataRows, start) ==
    scanResult(text, rows, delimiter, isHeader, dataRows, start,
               forEachSteps(start, dataRows, 0, isHeader, delimiter))

\* const dataRows = isHeader ? rows.slice(1) : rows
scanFrom(text, rows, delimiter, isHeader, start) ==
    scanDataRows(text, rows, delimiter, isHeader, IF isHeader THEN Tail(rows) ELSE rows, start)

scanRows(text, rows, current, uuid) ==
    scanFrom(text, rows, detectDelimiter(text), isHeaderRow(toLowerCase(rows[1])),
             loopStart(current, uuid))

\* handleParse up to the end of the scan, for the textarea content `text`, the
\* collection `current` and the identifier counter `uuid`.
handleParseScan(text, current, uuid) ==
    scanRows(text, split(trim(text), NL), current, uuid)

(***************************************************************************)
(* The store useCSVStore.                                                  *)
(***************************************************************************)

\* The test of setParsedData's filter: an existing item that blocks newItem.
storeClash(existingItem, newItem) ==
    \/ existingItem.name = newItem.name
    \/ existingItem.phone = newItem.phone
    \/ existingItem.email = newItem.email

setParsedData(currentData, data) ==
    LET keep(newItem) == ~\E i \in DOMAIN currentData : storeClash(currentData[i], newItem)
    IN  currentData \o SelectSeq(data, keep)

\* A removal that also takes the records before the one removed.
deleteEntryAndBefore(currentData, id) ==
    IF \E i \in DOMAIN currentData : currentData[i].id = id
    THEN SubSeq(currentData,
                1 + (CHOOSE i \in DOMAIN currentData : currentData[i].id = id),
                Len(currentData))
    ELSE currentData

deleteEntry(currentData, id) ==
    LET keep(item) == item.id # id
    IN  SelectSeq(currentData, keep)

\* A merge that hands the store one accepted record at a time.
RECURSIVE mergeEachRow(_, _)
mergeEachRow(currentData, parsed) ==
    IF Len(parsed) = 0 THEN currentData
    ELSE mergeEachRow(setParsedData(currentData, <<Head(parsed)>>), Tail(parsed))

\* if (parsed.length > 0) { setParsedData(parsed); ... }
mergeAccepted(currentData, parsed) ==
    IF Len(parsed) > 0 THEN setParsedData(currentData, parsed) ELSE currentData

\* A publication that adds the errors to the displayed list.
appendErrors(displayed, errors) == displayed \o errors

\* if (errors.length > 0) { setError(errors); } else { setError([]); }
\* displayed is the list that the call replaces
publishErrors(displayed, errors) == IF Len(errors) > 0 THEN errors ELSE <<>>

(***************************************************************************)
(* The texts a user pastes: one or more lines, each one of Lines; at most  *)
(* MaxLines lines are handed to handleParse over a session.                *)
(***************************************************************************)
MaxLines == 4

Jo == <<"J", "o">>
Al == <<"A", "l">>
Phone1 == <<"5", "5", "5", "1", "2", "3", "4", "5", "6", "7">>
Phone2 == <<"+", "1", "5", "5", "5", "0", "0", "0", "1", "1", "1", "1">>
Email1 == <<"j", "@", "x", ".", "c", "o", "m">>
Email1Upper == <<"J", "@", "X", ".", "c", "o", "m">>
Email2 == <<"a", "@", "b", ".", "i", "o">>

Line(f1, f2, f3) == f1 \o <<TAB>> \o f2 \o <<TAB>> \o f3

\* Valid rows: LineA and LineB differ in name and phone and have the same email
\* up to case; LineC (email first) has LineA's name, LineB's phone and an email
\* of its own.
LineA == Line(Jo, Phone1, Email1)
LineB == Line(Al, Phone2, Email1Upper)
LineC == Line(Email2, Jo, Phone2)
\* A row whose name is blank; as the first line of a text its leading blank and
\* tab are trimmed away, which leaves two fields.
LineNoName == Line(<<" ">>, Phone1, Email2)
\* A header line; anywhere but on the first line it is a data row without a
\* valid phone or email.
LineHeader == Line(<<"n", "a", "m", "e">>, <<"p", "h", "o", "n", "e">>, <<"e", "m", "a", "i", "l">>)
\* The empty line: a single field inside a text, trimmed away at its ends.
LineBlank == <<>>

Lines == {LineA, LineB, LineC, LineNoName, LineHeader, LineBlank}

\* the texts of n lines
TextsOfLength == [n \in 1..MaxLines |-> {joinLines(ls) : ls \in [1..n -> Lines]}]

(***************************************************************************)
(* The texts of the specification SpecRows, which pastes one text and      *)
(* parses it: rows in every order of their fields, with either delimiter,  *)
(* with quoted fields, with two fields of one role, behind header lines,   *)
(* behind lines without a delimiter and behind blank lines.                *)
(***************************************************************************)
SpaceAl == <<" ", "A", "l">>
Tel == <<"t", "e", "l">>
Short == <<"1", "2", "3">>
BadEmail == <<"x", "@">>
DoeJo == <<"D", "o", "e", COMMA, "J", "o">>
Quoted(f) == <<QUOTE>> \o f \o <<QUOTE>>

LineOf(d, f1, f2, f3) == f1 \o <<d>> \o f2 \o <<d>> \o f3

\* the orders of three fields
Perm3 == {p \in [1..3 -> 1..3] : {p[1], p[2], p[3]} = 1..3}

\* a name-shaped, a phone-shaped and an email-shaped field (tel is also a
\* keyword of the header patterns, x@ has the shape of an email and is not one)
Triples == {<<n, Phone1, e>> : n \in {Jo, SpaceAl, Tel}, e \in {Email1, BadEmail}}

PermLines == {LineOf(d, t[p[1]], t[p[2]], t[p[3]]) : d \in {TAB, COMMA}, t \in Triples, p \in Perm3}

\* Jo, "555,0100" ,j@x.com
ScenarioF ==
    Jo \o <<COMMA, " ">> \o Quoted(<<"5", "5", "5", COMMA, "0", "1", "0", "0">>)
       \o <<" ", COMMA>> \o Email1
\* "Doe,Jo",5551234567,j@x.com and Jo,"5551234567",j@x.com
QuotedName == LineOf(COMMA, Quoted(DoeJo), Phone1, Email1)
QuotedPhone == LineOf(COMMA, Jo, Quoted(Phone1), Email1)
\* two fields of one role
TwoEmails == LineOf(TAB, Email1, Phone1, Email2)
TwoPhones == LineOf(COMMA, Phone1, Phone2, Jo)
ScenarioE == LineOf(TAB, Jo, Short, Email1)
\* a line that only the phone patterns match, a line without a delimiter, a
\* line with both delimiters, a line of one blank
HeaderPhoneOnly == <<"M", "o", "b", "i", "l", "e">>
PlainName == Jo
BothDelimiters == LineOf(TAB, DoeJo, Phone1, Email1)
CommaA == LineOf(COMMA, Jo, Phone1, Email1)
CommaB == LineOf(COMMA, Email2, Al, Phone2)
OneBlank == <<" ">>

SpecialLines ==
    {ScenarioF, QuotedName, QuotedPhone, TwoEmails, TwoPhones, ScenarioE, BothDelimiters}

FirstLines ==
    {HeaderPhoneOnly, LineHeader, PlainName, BothDelimiters, CommaA, LineA, LineBlank, OneBlank}
SecondLines ==
    {LineA, CommaA, CommaB, LineHeader, HeaderPhoneOnly, ScenarioF, TwoEmails, ScenarioE}

RowTexts ==
    PermLines \cup SpecialLines
    \cup {joinLines(<<f, l>>) : f \in FirstLines, l \in SecondLines}

(***************************************************************************)
(* The texts of the specification SpecSelection, which adds the selection  *)
(* of table rows: two rows that the store keeps both, alone and together.  *)
(***************************************************************************)
LineD == LineOf(TAB, Al, Phone2, Email2)

SelectionTexts == {LineA, LineD, joinLines(<<LineA, LineD>>)}

(***************************************************************************)
(* State.                                                                  *)
(***************************************************************************)
VARIABLES
    input,       \* useState: the content of the textarea
    error,       \* useState: the displayed error list
    showInput,   \* useState: whether the textarea and the Add button are rendered
    parsedData,  \* useCSVStore: the committed collection
    uuid,        \* the state of the identifier source behind uuidv4()
    selectedRows,\* useState: the set of the ids of the selected table rows
    run,         \* the local variables of handleParse at its return, with the
                 \* collection and the error list before it and the collection
                 \* after it; NoRun after any other step
    lines        \* number of lines handed to handleParse so far

vars == <<input, error, showInput, parsedData, uuid, selectedRows, run, lines>>

NoRun == [done |-> FALSE]

Init ==
    /\ input = <<>>
    /\ error = <<>>
    /\ showInput = TRUE
    /\ parsedData = <<>>
    /\ uuid = 0
    /\ selectedRows = {}
    /\ run = NoRun
    /\ lines = 0

\* handleInputChange: the user pastes a text into the empty textarea, or
\* empties the textarea.
handleInputChange(value) ==
    /\ showInput
    /\ (Len(value) = 0) # (Len(input) = 0)
    /\ input' = value
    /\ error' = <<>>
    /\ run' = NoRun
    /\ UNCHANGED <<showInput, parsedData, uuid, selectedRows, lines>>

\* The Add button, rendered when showInput && input.trim(): handleParse, with
\* the merge into the store and the publication of the errors.
handleParse ==
    /\ showInput
    /\ Len(trim(input)) > 0
    /\ lines + Len(split(input, NL)) <= MaxLines
    /\ \E scan \in {handleParseScan(input, parsedData, uuid)} :
         \E merged \in {mergeAccepted(parsedData, scan.parsed)} :
           /\ parsedData' = merged
           /\ showInput' = IF Len(scan.parsed) > 0 THEN FALSE ELSE showInput
           /\ input' = IF Len(scan.parsed) > 0 THEN <<>> ELSE input
           /\ error' = publishErrors(error, scan.errors)
           /\ uuid' = scan.uuid
           /\ run' = scan @@ [done |-> TRUE, before |-> parsedData, after |-> merged,
                            errorBefore |-> error]
    /\ lines' = lines + Len(split(input, NL))
    /\ UNCHANGED selectedRows

\* The Add More button, rendered when !showInput.
addMore ==
    /\ ~showInput
    /\ showInput' = TRUE
    /\ run' = NoRun
    /\ UNCHANGED <<input, error, parsedData, uuid, selectedRows, lines>>

\* The trash button of a table row: deleteEntry(item.id), followed by the
\* effect on [parsedData] that sets showInput to parsedData.length === 0.
deleteRow(id) ==
    /\ \E i \in DOMAIN parsedData : parsedData[i].id = id
    /\ parsedData' = deleteEntry(parsedData, id)
    /\ showInput' = (Len(parsedData') = 0)
    /\ run' = NoRun
    /\ UNCHANGED <<input, error, uuid, selectedRows, lines>>

Next ==
    \/ \E n \in 1..(MaxLines - lines) : \E value \in TextsOfLength[n] : handleInputChange(value)
    \/ handleInputChange(<<>>)
    \/ handleParse
    \/ addMore
    \/ \E id \in 0..uuid : deleteRow(id)

Spec == Init /\ [][Next]_vars

(***************************************************************************)
(* SpecRows: one text of RowTexts is pasted and parsed.                    *)
(***************************************************************************)
NextRows ==
    \/ \E value \in RowTexts : handleInputChange(value)
    \/ handleParse

SpecRows == Init /\ [][NextRows]_vars

(***************************************************************************)
(* SpecSelection: the component with the selection of table rows.  The     *)
(* table, its checkboxes and its trash buttons are rendered when           *)
(* parsedData.length > 0, the Delete Selected button when !showInput and   *)
(* selectedRows.size > 0.                                                  *)
(***************************************************************************)
RECURSIVE deleteEntries(_, _)
\* selectedRows.forEach((id) => deleteEntry(id))
deleteEntries(currentData, ids) ==
    IF ids = {} THEN currentData
    ELSE LET id == CHOOSE i \in ids : TRUE
         IN  deleteEntries(deleteEntry(currentData, id), ids \ {id})

\* the checkbox of a table row
toggleRow(id) ==
    /\ \E i \in DOMAIN parsedData : parsedData[i].id = id
    /\ selectedRows' = IF id \in selectedRows THEN selectedRows \ {id}
                       ELSE selectedRows \cup {id}
    /\ run' = NoRun
    /\ UNCHANGED <<input, error, showInput, parsedData, uuid, lines>>

\* the checkbox of the table header
toggleAll ==
    /\ Len(parsedData) > 0
    /\ selectedRows' = IF Cardinality(selectedRows) = Len(parsedData) THEN {}
                       ELSE {parsedData[i].id : i \in DOMAIN parsedData}
    /\ run' = NoRun
    /\ UNCHANGED <<input, error, showInput, parsedData, uuid, lines>>

\* the Delete Selected button, followed by the effect on [parsedData]
deleteSelectedEntries ==
    /\ ~showInput
    /\ Cardinality(selectedRows) > 0
    /\ parsedData' = deleteEntries(parsedData, selectedRows)
    /\ selectedRows' = {}
    /\ showInput' = (Len(parsedData') = 0)
    /\ run' = NoRun
    /\ UNCHANGED <<input, error, uuid, lines>>

NextSelection ==
    \/ \E value \in SelectionTexts : handleInputChange(value)
    \/ handleInputChange(<<>>)
    \/ handleParse
    \/ addMore
    \/ \E id \in 0..uuid : deleteRow(id)
    \/ \E id \in 0..uuid : toggleRow(id)
    \/ toggleAll
    \/ deleteSelectedEntries

SpecSelection == Init /\ [][NextSelection]_vars

(***************************************************************************)
(* SpecPlain: the variant of the component without showInput.  Its         *)
(* textarea only stores the text, its Parse Data button is always          *)
(* rendered, so handleParse also runs on an empty or blank text, and the   *)
(* text stays in the textarea after a parse.  detectDelimiter, splitRow    *)
(* and the body of handleParse are those of the component above.           *)
(***************************************************************************)
BlankTexts == {<<>>, <<" ">>, <<NL>>, <<" ", NL, TAB>>}

PlainTexts == BlankTexts \cup {LineA, LineD, LineNoName, joinLines(<<LineA, LineD>>)}

\* onChange={(e) => setInput(e.target.value)}
setInput(value) ==
    /\ value # input
    /\ input' = value
    /\ run' = NoRun
    /\ UNCHANGED <<error, showInput, parsedData, uuid, selectedRows, lines>>

\* The Parse Data button: handleParse, with the test of rows.length === 0
\* that precedes the scan.
handleParsePlain ==
    /\ lines + Len(split(input, NL)) <= MaxLines
    /\ IF Len(split(trim(input), NL)) = 0
       THEN /\ error' = <<ErrorString("No data provided", 0)>>
            /\ run' = [done |-> TRUE, text |-> input, rows |-> <<>>, steps |-> <<>>,
                       errors |-> <<>>, parsed |-> <<>>,
                       before |-> parsedData, after |-> parsedData, errorBefore |-> error]
            /\ UNCHANGED <<parsedData, uuid>>
       ELSE \E scan \in {handleParseScan(input, parsedData, uuid)} :
              \E merged \in {mergeAccepted(parsedData, scan.parsed)} :
                /\ parsedData' = merged
                /\ error' = publishErrors(error, scan.errors)
                /\ uuid' = scan.uuid
                /\ run' = scan @@ [done |-> TRUE, before |-> parsedData, after |-> merged,
                                 errorBefore |-> error]
    /\ lines' = lines + Len(split(input, NL))
    /\ UNCHANGED <<input, showInput, selectedRows>>

\* the trash button of a table row
deleteRowPlain(id) ==
    /\ \E i \in DOMAIN parsedData : parsedData[i].id = id
    /\ parsedData' = deleteEntry(parsedData, id)
    /\ run' = NoRun
    /\ UNCHANGED <<input, error, showInput, uuid, selectedRows, lines>>

NextPlain ==
    \/ \E value \in PlainTexts : setInput(value)
    \/ handleParsePlain
    \/ \E id \in 0..uuid : deleteRowPlain(id)

SpecPlain == Init /\ [][NextPlain]_vars

(***************************************************************************)
(* Vocabulary of the properties: what each data row of the invocation      *)
(* recorded in run carried, and what it contributed.                       *)
(***************************************************************************)
Ran == run.done

DataRowIndexes == IF Ran THEN 1..Len(run.steps) ELSE {}

\* the closed-over variables before row k
StepBefore(k) == IF k = 1 THEN run.start ELSE run.steps[k - 1]

\* the error strings and the records that row k added
RowErrors(k) ==
    SubSeq(run.steps[k].errors, Len(StepBefore(k).errors) + 1, Len(run.steps[k].errors))
RowRecords(k) ==
    SubSeq(run.steps[k].parsed, Len(StepBefore(k).parsed) + 1, Len(run.steps[k].parsed))

\* What a row carries: its fields, the value of each role, the keys of the
\* duplicate detection, which rules of the schema it satisfies, and whether it
\* is validated (three fields and the three rules).
RowFact(fields, values) ==
    [fields |-> Len(fields),
     name |-> values.name, phone |-> values.phone, email |-> values.email,
     emailKey |-> toLowerCase(values.email), phoneKey |-> values.phone,
     nameOk |-> Len(values.name) >= 1,
     phoneOk |-> phoneRegex(values.phone),
     emailOk |-> emailRegex(values.email),
     validated |-> /\ Len(fields) = 3
                   /\ Len(values.name) >= 1
                   /\ phoneRegex(values.phone)
                   /\ emailRegex(values.email)]

RowFactOf(fields) ==
    RowFact(fields, categorize(fields, [name |-> <<>>, email |-> <<>>, phone |-> <<>>]))

RECURSIVE RowFactsFrom(_)
RowFactsFrom(k) ==
    IF k > Len(run.dataRows) THEN <<>>
    ELSE <<RowFactOf(splitRow(run.dataRows[k], run.delimiter))>> \o RowFactsFrom(k + 1)

\* the facts of the data rows, in row order; the properties bind it as `row`
RowFacts == IF Ran THEN RowFactsFrom(1) ELSE <<>>

\* no validated row before row k carries its email, its phone
FirstEmail(row, k) == \A j \in 1..(k - 1) : row[j].validated => row[j].emailKey # row[k].emailKey
FirstPhone(row, k) == \A j \in 1..(k - 1) : row[j].validated => row[j].phoneKey # row[k].phoneKey

\* row k is validated and is the first occurrence of both its keys
FirstOccurrence(row, k) == row[k].validated /\ FirstEmail(row, k) /\ FirstPhone(row, k)

\* row k put exactly its own record into accepted
Kept(row, k) ==
    /\ Len(RowRecords(k)) = 1
    /\ RowRecords(k)[1].name = row[k].name
    /\ RowRecords(k)[1].phone = row[k].phone
    /\ RowRecords(k)[1].email = row[k].email

\* the number the code gives row k: its position among the rows of the trimmed
\* text, the header row counted
RowNumber(k) == k + (IF run.isHeader THEN 1 ELSE 0)

DuplicateTexts == {"Duplicate email", "Duplicate phone", "Duplicate email and phone"}

HasDuplicateError(k) ==
    \E i \in 1..Len(RowErrors(k)) : RowErrors(k)[i].text \in DuplicateTexts

\* the Duplicate error that names exactly the keys row k repeats
DuplicateErrorOf(row, k) ==
    ErrorString(IF ~FirstEmail(row, k) /\ ~FirstPhone(row, k) THEN "Duplicate email and phone"
                ELSE IF ~FirstEmail(row, k) THEN "Duplicate email"
                ELSE "Duplicate phone", RowNumber(k))

InCollection(rec, collection) == \E i \in DOMAIN collection : collection[i] = rec

\* the counters are the same before and after row k
CountersUnchanged(k) ==
    /\ run.steps[k].emailCounts = StepBefore(k).emailCounts
    /\ run.steps[k].phoneCounts = StepBefore(k).phoneCounts

(***************************************************************************)
(* C1. After any sequence of handleParse and deleteEntry from the empty    *)
(* collection, no two records of the collection have the same email up to  *)
(* case, and no two have the same phone.  The store compares emails        *)
(* exactly, so a second batch can add an email that differs only in case.  *)
(***************************************************************************)
C1_UniqueEmailAndPhone ==
    \A i, j \in DOMAIN parsedData :
        i # j => /\ toLowerCase(parsedData[i].email) # toLowerCase(parsedData[j].email)
                 /\ parsedData[i].phone # parsedData[j].phone

(***************************************************************************)
(* C2, as stated. For every email and every phone carried by validated     *)
(* rows of one invocation, the first row carrying it is kept and every     *)
(* later one is reported as a duplicate and not kept.                      *)
(***************************************************************************)
C2_FirstCarrierOfEachValueKept ==
    \A row \in {RowFacts} : \A k \in DataRowIndexes :
        row[k].validated =>
            /\ FirstEmail(row, k) => Kept(row, k)
            /\ FirstPhone(row, k) => Kept(row, k)
            /\ (~FirstEmail(row, k) \/ ~FirstPhone(row, k)) =>
                   (HasDuplicateError(k) /\ Len(RowRecords(k)) = 0)

(***************************************************************************)
(* C2, amended. A validated row is kept exactly when it is the first       *)
(* validated row carrying its email and the first carrying its phone; a    *)
(* validated row that repeats the email or the phone of an earlier         *)
(* validated row gets the one Duplicate error that names the repeated      *)
(* keys, and is not kept, also when it is the first carrier of its other   *)
(* value.                                                                  *)
(***************************************************************************)
C2_FirstOccurrenceKept ==
    \A row \in {RowFacts} : \A k \in DataRowIndexes :
        row[k].validated =>
            IF FirstEmail(row, k) /\ FirstPhone(row, k)
            THEN Kept(row, k) /\ Len(RowErrors(k)) = 0
            ELSE Len(RowRecords(k)) = 0 /\ RowErrors(k) = <<DuplicateErrorOf(row, k)>>

\* a validated row that is the first carrier of its phone is dropped for its email
C2_Witness ==
    /\ Ran
    /\ \E row \in {RowFacts} : \E k \in DataRowIndexes :
          /\ row[k].validated /\ FirstPhone(row, k) /\ ~FirstEmail(row, k)
          /\ Len(RowRecords(k)) = 0
          /\ \E j \in 1..(k - 1) : Kept(row, j) /\ row[j].emailKey = row[k].emailKey

(***************************************************************************)
(* C3, as stated. A row gets a Duplicate error only if its email (lower    *)
(* case) or its phone equals that of a record placed in accepted earlier   *)
(* in the same invocation.                                                 *)
(***************************************************************************)
C3_DuplicateOnlyOfAccepted ==
    \A row \in {RowFacts} : \A k \in DataRowIndexes :
        HasDuplicateError(k) =>
            \E i \in 1..Len(StepBefore(k).parsed) :
                \/ toLowerCase(StepBefore(k).parsed[i].email) = row[k].emailKey
                \/ StepBefore(k).parsed[i].phone = row[k].phoneKey

(***************************************************************************)
(* C3, amended. A row gets a Duplicate error only if it is validated and   *)
(* its email (lower case) or its phone equals that of an earlier validated *)
(* row of the same invocation, whether that row was accepted or was itself *)
(* dropped as a duplicate; values seen only in rows rejected for their     *)
(* field count or by validation never make a row a duplicate.              *)
(***************************************************************************)
C3_DuplicateOnlyOfValidated ==
    \A row \in {RowFacts} : \A k \in DataRowIndexes :
        HasDuplicateError(k) =>
            /\ row[k].validated
            /\ \E j \in 1..(k - 1) :
                  /\ row[j].validated
                  /\ (row[j].emailKey = row[k].emailKey \/ row[j].phoneKey = row[k].phoneKey)

\* a row is reported for a phone that only a dropped row carried before it
C3_Witness ==
    /\ Ran
    /\ \E row \in {RowFacts} : \E k \in DataRowIndexes :
          /\ RowErrors(k) = <<ErrorString("Duplicate phone", RowNumber(k))>>
          /\ \A i \in 1..Len(StepBefore(k).parsed) :
                StepBefore(k).parsed[i].phone # row[k].phoneKey
          /\ \E j \in 1..(k - 1) : HasDuplicateError(j) /\ row[j].phoneKey = row[k].phoneKey

RowsWithErrors == {k \in DataRowIndexes : Len(RowErrors(k)) > 0}

C5_OneOutcomePerRow ==
    Ran =>
        /\ Len(run.start.errors) = 0 /\ Len(run.start.parsed) = 0
        /\ \A k \in DataRowIndexes :
              \/ Len(RowRecords(k)) = 1 /\ Len(RowErrors(k)) = 0
              \/ Len(RowRecords(k)) = 0 /\ Len(RowErrors(k)) >= 1
        /\ Len(run.parsed) + Cardinality(RowsWithErrors) <= Len(run.dataRows)
        /\ Len(run.rows) = Len(run.dataRows) + (IF run.isHeader THEN 1 ELSE 0)

\* behind a header row, one row is accepted and another reports two errors
C5_Witness ==
    /\ Ran
    /\ run.isHeader
    /\ \E row \in {RowFacts} : \E j, k \in DataRowIndexes :
          Kept(row, j) /\ Len(RowErrors(k)) = 2

(***************************************************************************)
(* C6. Idempotence: when handleParse runs on a text whose accepted records *)
(* the collection already absorbed (every first-occurrence row of the text *)
(* is in the collection with the same name, phone and email, as it is      *)
(* after a first run on the same text), it accepts nothing and reports a   *)
(* duplicate for every validated row.                                      *)
(***************************************************************************)
HeldBefore(fact) ==
    \E i \in DOMAIN run.before :
        /\ run.before[i].name = fact.name
        /\ run.before[i].phone = fact.phone
        /\ run.before[i].email = fact.email

C6_SecondRunAcceptsNothing ==
    \A row \in {RowFacts} :
        (/\ Ran
         /\ \A k \in DataRowIndexes : FirstOccurrence(row, k) => HeldBefore(row[k]))
        => /\ Len(run.parsed) = 0
           /\ \A k \in DataRowIndexes : row[k].validated => HasDuplicateError(k)

(***************************************************************************)
(* C7. Every record placed in accepted whose email (lower case) and phone  *)
(* differ from those of every record already in the collection is in the   *)
(* collection after the merge, and a row whose record is not in the        *)
(* collection after the merge has reported an error string.                *)
(***************************************************************************)
C7_ValidRowsCommitted ==
    \A row \in {RowFacts} : \A k \in DataRowIndexes :
        /\ (/\ Kept(row, k)
            /\ \A i \in DOMAIN run.before :
                  /\ toLowerCase(run.before[i].email) # row[k].emailKey
                  /\ run.before[i].phone # row[k].phoneKey)
              => InCollection(RowRecords(k)[1], parsedData)
        /\ (Len(RowRecords(k)) = 0 \/ ~InCollection(RowRecords(k)[1], parsedData))
              => Len(RowErrors(k)) > 0

(***************************************************************************)
(* C8. The row number of every error string is the 1-based number of the   *)
(* line, in the text as pasted, that caused the error.                     *)
(***************************************************************************)
\* the line breaks of the text that precede its first non-blank character
LeadingLineBreaks(text) ==
    Cardinality({i \in 1..Len(text) : text[i] = NL /\ \A j \in 1..i : IsWhitespace(text[j])})

\* the number, in the text as pasted, of the line that is data row k
LiteralLine(k) == LeadingLineBreaks(run.text) + (IF run.isHeader THEN 1 ELSE 0) + k

C8_RowNumberIsLiteralLine ==
    Ran =>
        \A k \in DataRowIndexes :
            \A i \in 1..Len(RowErrors(k)) : RowErrors(k)[i].row = LiteralLine(k)

(***************************************************************************)
(* C9. A data row that does not split into exactly 3 fields produces the   *)
(* single error `Invalid number of fields at Row n`, no record, and leaves *)
(* the two occurrence counters as they were.                               *)
(***************************************************************************)
C9_WrongFieldCount ==
    \A row \in {RowFacts} : \A k \in DataRowIndexes :
        row[k].fields # 3 =>
            /\ RowErrors(k) = <<ErrorString("Invalid number of fields", RowNumber(k))>>
            /\ Len(RowRecords(k)) = 0
            /\ CountersUnchanged(k)

\* a row of two fields is rejected, and a row of one field is rejected after
\* a row that was counted
C9_Witness ==
    /\ Ran
    /\ \E row \in {RowFacts} : \E j, k \in DataRowIndexes :
          /\ row[j].fields = 2
          /\ RowErrors(j) = <<ErrorString("Invalid number of fields", RowNumber(j))>>
          /\ row[k].fields = 1
          /\ DOMAIN StepBefore(k).emailCounts # {}
          /\ RowErrors(k) = <<ErrorString("Invalid number of fields", RowNumber(k))>>

(***************************************************************************)
(* C10. For a row of 3 fields, validation reports `Invalid <field> at Row  *)
(* n` exactly once for each of name, phone and email that breaks its rule  *)
(* and never for a field that satisfies it; a row with a violation reports *)
(* nothing else, contributes no record and leaves the counters unchanged.  *)
(***************************************************************************)
\* how often row k reports the error `text`
TimesReported(k, text) ==
    Cardinality({i \in 1..Len(RowErrors(k)) : RowErrors(k)[i] = ErrorString(text, RowNumber(k))})

\* the number of rules that the row breaks
Violations(fact) ==
    (IF fact.nameOk THEN 0 ELSE 1) + (IF fact.phoneOk THEN 0 ELSE 1)
    + (IF fact.emailOk THEN 0 ELSE 1)

C10_OneErrorPerViolatedField ==
    \A row \in {RowFacts} : \A k \in DataRowIndexes :
        row[k].fields = 3 =>
            /\ TimesReported(k, "Invalid name") = (IF row[k].nameOk THEN 0 ELSE 1)
            /\ TimesReported(k, "Invalid phone") = (IF row[k].phoneOk THEN 0 ELSE 1)
            /\ TimesReported(k, "Invalid email") = (IF row[k].emailOk THEN 0 ELSE 1)
            /\ ~row[k].validated =>
                  /\ Len(RowErrors(k)) = Violations(row[k])
                  /\ Len(RowRecords(k)) = 0
                  /\ CountersUnchanged(k)

\* one row breaks the phone and email rules only, another the name rule only,
\* after a row that was counted
C10_Witness ==
    /\ Ran
    /\ \E row \in {RowFacts} : \E j, k \in DataRowIndexes :
          /\ row[j].fields = 3 /\ row[j].nameOk /\ ~row[j].phoneOk /\ ~row[j].emailOk
          /\ row[k].fields = 3 /\ ~row[k].nameOk /\ row[k].phoneOk /\ row[k].emailOk
          /\ DOMAIN StepBefore(k).emailCounts # {}

(***************************************************************************)
(* C11. Classification depends only on the shape of the content: for a     *)
(* row of 3 fields, one name-shaped, one phone-shaped and one              *)
(* email-shaped, each role holds the trimmed field of its shape, and every *)
(* order of the three fields gives the same name, phone and email and the  *)
(* same outcome of the row (record, errors, counters).                     *)
(***************************************************************************)
NoValues == [name |-> <<>>, email |-> <<>>, phone |-> <<>>]

\* the shape of a field: what its trimmed content looks like
ShapeOf(field) ==
    IF includes(trim(field), "@") THEN "email"
    ELSE IF phoneRegex(trim(field)) THEN "phone"
    ELSE IF Len(trim(field)) > 0 THEN "name"
    ELSE "blank"

OneOfEachShape(fields) ==
    /\ Len(fields) = 3
    /\ {ShapeOf(fields[i]) : i \in 1..3} = {"name", "phone", "email"}

Permuted(fields, p) == [i \in 1..3 |-> fields[p[i]]]

\* the fields of data row k
FieldsOf(k) == splitRow(run.dataRows[k], run.delimiter)

C11_ClassificationByShape ==
    Ran =>
        \A k \in DataRowIndexes : \A fields \in {FieldsOf(k)} :
            OneOfEachShape(fields) =>
                /\ \A i \in 1..3 : categorize(fields, NoValues)[ShapeOf(fields[i])] = trim(fields[i])
                /\ \A p \in Perm3 :
                      /\ categorize(Permuted(fields, p), NoValues) = categorize(fields, NoValues)
                      /\ processFields(StepBefore(k), Permuted(fields, p), RowNumber(k)) = run.steps[k]

\* a comma-delimited row in the order email, phone, name is accepted
C11_Witness ==
    /\ Ran
    /\ run.delimiter = COMMA
    /\ \E k \in DataRowIndexes : \E fields \in {FieldsOf(k)} :
          /\ OneOfEachShape(fields)
          /\ ShapeOf(fields[1]) = "email" /\ ShapeOf(fields[2]) = "phone"
          /\ Len(RowRecords(k)) = 1
          /\ RowRecords(k)[1].name = trim(fields[3])
          /\ RowRecords(k)[1].email = trim(fields[1])

(***************************************************************************)
(* C12. With the comma delimiter, every double-quoted span of a row that   *)
(* contains a comma is returned by splitRow as one field, without its      *)
(* quotes, and the line of Scenario F splits into exactly 3 fields.        *)
(***************************************************************************)
\* row[i] opens and row[j] closes a double-quoted span
QuotedSpan(row, i, j) ==
    /\ i < j
    /\ row[i] = QUOTE /\ row[j] = QUOTE
    /\ \A m \in (i + 1)..(j - 1) : row[m] # QUOTE
    /\ Cardinality({m \in 1..(i - 1) : row[m] = QUOTE}) % 2 = 0

C12_QuotedSpanIsOneField ==
    (Ran /\ run.delimiter = COMMA) =>
        \A k \in DataRowIndexes : \A fields \in {FieldsOf(k)} :
            /\ \A i, j \in 1..Len(run.dataRows[k]) :
                  (/\ QuotedSpan(run.dataRows[k], i, j)
                   /\ \E m \in (i + 1)..(j - 1) : run.dataRows[k][m] = COMMA)
                  => \E f \in 1..Len(fields) : fields[f] = SubSeq(run.dataRows[k], i + 1, j - 1)
            /\ run.dataRows[k] = ScenarioF => Len(fields) = 3

(***************************************************************************)
(* C13. detectDelimiter always returns tab or comma and looks at the first *)
(* line of the text only: tab if that line holds a tab, otherwise comma if *)
(* it holds a comma, otherwise tab; replacing the later lines never        *)
(* changes the result.                                                     *)
(***************************************************************************)
\* the text up to its first line break
FirstLineOf(text) ==
    SubSeq(text, 1, Cardinality({i \in 1..Len(text) : \A j \in 1..i : text[j] # NL}))

C13_DelimiterOfFirstLine ==
    Ran =>
        /\ run.delimiter \in {TAB, COMMA}
        /\ run.delimiter = TAB <=>
              (\/ \E i \in 1..Len(FirstLineOf(run.text)) : FirstLineOf(run.text)[i] = TAB
               \/ \A i \in 1..Len(FirstLineOf(run.text)) : FirstLineOf(run.text)[i] # COMMA)
        /\ detectDelimiter(run.text) = run.delimiter
        /\ \A later \in SecondLines :
              detectDelimiter(FirstLineOf(run.text) \o <<NL>> \o later) = run.delimiter

\* the first line holds commas and no tab, a later line holds tabs
C13_Witness ==
    /\ Ran
    /\ run.delimiter = COMMA
    /\ Len(FirstLineOf(run.text)) > 0
    /\ \E i \in 1..Len(run.text) :
          /\ run.text[i] = TAB
          /\ \E j \in 1..(i - 1) : run.text[j] = NL

(***************************************************************************)
(* C14. The first line is a header exactly when it matches at least one of *)
(* the three keyword pattern sets, the phone set alone included; a header  *)
(* line is left out of the data rows and contributes no record and no      *)
(* error; every later line is a data row, whatever it matches.             *)
(***************************************************************************)
MatchesName(line) == patternTest(namePattern, toLowerCase(line))
MatchesEmail(line) == patternTest(emailPattern, toLowerCase(line))
MatchesPhone(line) == patternTest(phonePattern, toLowerCase(line))

C14_HeaderOnAnyPattern ==
    Ran =>
        /\ run.isHeader <=>
              (MatchesName(run.rows[1]) \/ MatchesEmail(run.rows[1]) \/ MatchesPhone(run.rows[1]))
        /\ run.dataRows = (IF run.isHeader THEN Tail(run.rows) ELSE run.rows)
        /\ Len(run.steps) = Len(run.dataRows)
        /\ run.isHeader =>
              /\ \A i \in 1..Len(run.errors) : run.errors[i].row >= 2
              /\ Len(run.parsed) + Cardinality(RowsWithErrors) <= Len(run.rows) - 1

\* a first line that matches the phone patterns only is skipped, and the
\* line after it is treated as data although it matches all three
C14_Witness ==
    /\ Ran
    /\ run.isHeader
    /\ MatchesPhone(run.rows[1]) /\ ~MatchesName(run.rows[1]) /\ ~MatchesEmail(run.rows[1])
    /\ \E k \in DataRowIndexes :
          /\ MatchesName(run.dataRows[k]) /\ MatchesEmail(run.dataRows[k])
          /\ MatchesPhone(run.dataRows[k])
          /\ Len(RowErrors(k)) > 0

(***************************************************************************)
(* C15. handleParse leaves the collection alone while it scans and merges  *)
(* at most once, after the last row: the collection after the invocation   *)
(* is the collection before it followed by the accepted records that the   *)
(* store's filter lets pass against the collection before it, and it is    *)
(* the collection before it when accepted is empty.                        *)
(***************************************************************************)
\* the accepted records that no record of the collection before the run blocks
PassingBefore ==
    LET passes(rec) == \A i \in DOMAIN run.before :
                          /\ run.before[i].name # rec.name
                          /\ run.before[i].phone # rec.phone
                          /\ run.before[i].email # rec.email
    IN  SelectSeq(run.parsed, passes)

C15_MergedOnceAfterTheScan ==
    Ran =>
        /\ parsedData = run.before \o PassingBefore
        /\ Len(run.parsed) = 0 => parsedData = run.before
        /\ run.parsed = (IF Len(run.steps) = 0 THEN <<>> ELSE run.steps[Len(run.steps)].parsed)

\* two records accepted in one batch have the same name and are both committed
C15_Witness ==
    /\ Ran
    /\ \E i, j \in 1..Len(run.parsed) :
          /\ i < j
          /\ run.parsed[i].name = run.parsed[j].name
          /\ InCollection(run.parsed[i], parsedData)
          /\ InCollection(run.parsed[j], parsedData)

(***************************************************************************)
(* C16. After every handleParse the displayed error list is exactly the    *)
(* errors of that invocation, row by row, whatever was displayed before:   *)
(* the previous list is replaced, never extended, and an invocation        *)
(* without errors leaves the displayed list empty.                         *)
(***************************************************************************)
RECURSIVE ErrorsUpTo(_)
\* the error strings of the data rows 1..k, in row order
ErrorsUpTo(k) == IF k = 0 THEN <<>> ELSE ErrorsUpTo(k - 1) \o RowErrors(k)

C16_ErrorListReplaced ==
    Ran =>
        /\ Len(run.start.errors) = 0
        /\ error = ErrorsUpTo(Len(run.steps))
        /\ RowsWithErrors = {} => error = <<>>
        /\ \A displayed \in {run.errorBefore, error, run.errors \o error} :
              /\ publishErrors(displayed, run.errors) = run.errors
              /\ publishErrors(displayed, <<>>) = <<>>

\* an invocation that starts with errors on display ends with its own errors only
C16_Witness ==
    /\ Ran
    /\ Len(run.errorBefore) > 0
    /\ Len(run.errors) > 0
    /\ error = run.errors

(***************************************************************************)
(* C17. In a row of 3 fields each role holds the last field classified to  *)
(* it, trimmed, and the empty string when no field is; a role that no      *)
(* field fills is reported as invalid and the row contributes no record;   *)
(* so a row of 3 fields is accepted only if exactly one of its fields is   *)
(* classified to each of email, phone and name.                            *)
(***************************************************************************)
Roles == {"name", "phone", "email"}

\* the role a field is classified to
RoleOf(field) ==
    IF \E i \in 1..Len(field) : field[i] = "@" THEN "email"
    ELSE IF phoneRegex(trim(field)) THEN "phone"
    ELSE "name"

FieldsOfRole(fields, role) == {i \in 1..Len(fields) : RoleOf(fields[i]) = role}

LastOfRole(fields, role) ==
    IF FieldsOfRole(fields, role) = {} THEN <<>>
    ELSE trim(fields[CHOOSE i \in FieldsOfRole(fields, role) :
                        \A j \in FieldsOfRole(fields, role) : j <= i])

InvalidText(role) ==
    IF role = "name" THEN "Invalid name"
    ELSE IF role = "phone" THEN "Invalid phone"
    ELSE "Invalid email"

C17_LastFieldOfARoleWins ==
    Ran =>
        \A k \in DataRowIndexes : \A fields \in {FieldsOf(k)} :
            Len(fields) = 3 =>
                /\ \A role \in Roles :
                      /\ categorize(fields, NoValues)[role] = LastOfRole(fields, role)
                      /\ FieldsOfRole(fields, role) = {} =>
                            /\ \E i \in 1..Len(RowErrors(k)) :
                                  RowErrors(k)[i] = ErrorString(InvalidText(role), RowNumber(k))
                            /\ Len(RowRecords(k)) = 0
                /\ Len(RowRecords(k)) = 1 =>
                      \A role \in Roles :
                          /\ Cardinality(FieldsOfRole(fields, role)) = 1
                          /\ RowRecords(k)[1][role] = LastOfRole(fields, role)

\* Scenario E: of two fields classified to name the later one is the name, and
\* the phone that no field fills is the one error of the row
C17_Witness ==
    /\ Ran
    /\ \E k \in DataRowIndexes : \E fields \in {FieldsOf(k)} :
          /\ Len(fields) = 3
          /\ FieldsOfRole(fields, "name") = {1, 2}
          /\ FieldsOfRole(fields, "phone") = {}
          /\ trim(fields[1]) # trim(fields[2])
          /\ categorize(fields, NoValues).name = trim(fields[2])
          /\ RowErrors(k) = <<ErrorString("Invalid phone", RowNumber(k))>>

(***************************************************************************)
(* C18. The store's mutations keep the rest of the collection: the merge   *)
(* of setParsedData leaves the existing records in place and appends       *)
(* records of the list it was given, in the order of that list;            *)
(* deleteEntry(id) removes exactly the records with that id, keeps the     *)
(* others unchanged and in order, and changes nothing when no record has   *)
(* the id.                                                                 *)
(***************************************************************************)
\* the number of records with the id among the first n of the collection
WithIdUpTo(collection, id, n) == Cardinality({i \in 1..n : collection[i].id = id})

\* what the merge of the latest invocation appended
Appended == SubSeq(parsedData, Len(run.before) + 1, Len(parsedData))

C18_StoreKeepsTheRest ==
    /\ Ran =>
          /\ Len(parsedData) >= Len(run.before)
          /\ SubSeq(parsedData, 1, Len(run.before)) = run.before
          /\ \E at \in [1..Len(Appended) -> 1..Len(run.parsed)] :
                /\ \A i \in 1..Len(Appended) : run.parsed[at[i]] = Appended[i]
                /\ \A i, j \in 1..Len(Appended) : i < j => at[i] < at[j]
    /\ \A id \in 0..uuid : \A left \in {deleteEntry(parsedData, id)} :
          /\ Len(left) = Len(parsedData) - WithIdUpTo(parsedData, id, Len(parsedData))
          /\ \A i \in 1..Len(parsedData) :
                parsedData[i].id # id => left[i - WithIdUpTo(parsedData, id, i)] = parsedData[i]
          /\ WithIdUpTo(parsedData, id, Len(parsedData)) = 0 => left = parsedData

\* a merge appended a record behind an existing one, and deleting either of the
\* two leaves the other
C18_Witness ==
    /\ Ran
    /\ Len(run.before) = 1
    /\ Len(parsedData) = 2
    /\ deleteEntry(parsedData, parsedData[1].id) = <<parsedData[2]>>
    /\ deleteEntry(parsedData, parsedData[2].id) = <<parsedData[1]>>

(***************************************************************************)
(* C19. The selected ids are ids of records of the collection: the count   *)
(* of Delete Selected never exceeds the number of records, and the         *)
(* select-all checkbox (selectedRows.size === parsedData.length) is        *)
(* checked only when every record is selected.                             *)
(***************************************************************************)
CollectionIds == {parsedData[i].id : i \in DOMAIN parsedData}

C19_SelectionWithinCollection ==
    /\ selectedRows \subseteq CollectionIds
    /\ Cardinality(selectedRows) <= Len(parsedData)
    /\ Cardinality(selectedRows) = Len(parsedData) => CollectionIds \subseteq selectedRows

(***************************************************************************)
(* C20. The delimiter that splits the data rows is the one detected on the *)
(* line that handleParse treats as its first row (the row tested for a     *)
(* header), also when the text begins with blank lines.                    *)
(***************************************************************************)
C20_DelimiterOfFirstRow ==
    Ran => run.delimiter = detectDelimiter(run.rows[1])

(***************************************************************************)
(* C21. When the text is empty or holds only whitespace, handleParse sets  *)
(* the error list to exactly `No data provided`, processes no row and      *)
(* leaves the collection unchanged.                                        *)
(***************************************************************************)
C21_NoDataProvided ==
    (Ran /\ Len(trim(run.text)) = 0) =>
        /\ error = <<ErrorString("No data provided", 0)>>
        /\ Len(run.steps) = 0
        /\ parsedData = run.before

====
